---- MODULE Spec2Model ----
(***************************************************************************)
(* Carrinho Abandonado -> WhatsApp (main.py).                              *)
(*                                                                         *)
(* JSON values are tagged records; text that the program inspects          *)
(* character by character (phones, events, names, prices) is a sequence    *)
(* of one-character strings.  Keys, paths, header names and the gateway    *)
(* token are atomic strings.  A Python exception propagating out of an     *)
(* expression is the value Raised; every operator below is strict in it.   *)
(***************************************************************************)
EXTENDS Integers, Sequences, FiniteSets, TLC

VARIABLES
    UAZAPI_TOKEN,   \* module constant read from the environment at start
    pc,             \* "idle" | "sending" | "done": position of the handler
    payload,        \* body of the request being handled
    info,           \* canonical record returned by parse_cartpanda_payload
    phone_norm,     \* normalize_phone(info.get("phone"))
    message,        \* safe_format(MSG_TEMPLATE, data)
    calls,          \* components the handler has called for this request
    attempts,       \* local `attempts` of uazapi_send_text
    issued,         \* positions in `attempts` of the POSTs made, in order
    reply,          \* outcome of the most recent POST of this call
    seen,           \* kinds of outcome the POSTs of this call have had
    last,           \* local `last` of uazapi_send_text
    response,       \* what the HTTP layer sends back for this request
    unit            \* a single call of a helper: [fn, arg, out]

vars == <<UAZAPI_TOKEN, pc, payload, info, phone_norm, message, calls,
          attempts, issued, reply, seen, last, response, unit>>

-----------------------------------------------------------------------------
(* Values *)

Null     == [t |-> "null"]
Raised   == [t |-> "raised"]
JStr(s)  == [t |-> "str", v |-> s]
JInt(n)  == [t |-> "int", v |-> n]
JFloat(c) == [t |-> "float", v |-> c]      \* c hundredths: JFloat(9700) is 97.0
JBool(b) == [t |-> "bool", v |-> b]
JObj(f)  == [t |-> "obj", v |-> f]
JArr(s)  == [t |-> "arr", v |-> s]
EmptyObj == JObj(<<>>)
EmptyArr == JArr(<<>>)

IsRaised(x) == x.t = "raised"

\* bool(x)
Truthy(x) ==
    CASE x.t = "null"  -> FALSE
      [] x.t = "str"   -> x.v # <<>>
      [] x.t = "int"   -> x.v # 0
      [] x.t = "float" -> x.v # 0
      [] x.t = "bool"  -> x.v
      [] x.t = "obj"   -> DOMAIN x.v # {}
      [] x.t = "arr"   -> x.v # <<>>

\* a or b  (b is evaluated only when a is falsy)
Or2(a, b) == IF IsRaised(a) THEN Raised ELSE IF Truthy(a) THEN a ELSE b
Or3(a, b, c) == Or2(Or2(a, b), c)

\* d.get(k, default): AttributeError unless d is a dict
GetD(d, k, default) ==
    IF d.t # "obj" THEN Raised
    ELSE IF k \in DOMAIN d.v THEN d.v[k] ELSE default

\* d.get(k)
Get(d, k) == GetD(d, k, Null)

\* x[0] for a truthy x
Index0(x) ==
    CASE x.t = "arr" -> x.v[1]
      [] x.t = "str" -> JStr(<<x.v[1]>>)
      [] OTHER       -> Raised

-----------------------------------------------------------------------------
(* Text *)

Digit == {"0", "1", "2", "3", "4", "5", "6", "7", "8", "9"}
DigitChar == <<"0", "1", "2", "3", "4", "5", "6", "7", "8", "9">>
Upper == <<"A", "B", "C", "D", "E", "N", "O", "R", "T">>
LowerOf == <<"a", "b", "c", "d", "e", "n", "o", "r", "t">>
Space == {" "}

isdigit(ch) == ch \in Digit

DigitVal(ch) == (CHOOSE k \in 1..10 : DigitChar[k] = ch) - 1

RECURSIVE Digits(_)
\* decimal digits of n >= 0
Digits(n) == IF n < 10 THEN <<DigitChar[n + 1]>>
             ELSE Digits(n \div 10) \o <<DigitChar[(n % 10) + 1]>>

\* ch.lower()
LowerChar(ch) ==
    IF \E k \in 1..Len(Upper) : Upper[k] = ch
    THEN LowerOf[CHOOSE k \in 1..Len(Upper) : Upper[k] = ch]
    ELSE ch

\* s.lower()
lower(s) == [k \in 1..Len(s) |-> LowerChar(s[k])]

\* sub in s
Contains(sub, s) ==
    \E k \in 0..(Len(s) - Len(sub)) : SubSeq(s, k + 1, k + Len(sub)) = sub

\* s.startswith(p)
startswith(s, p) == Len(s) >= Len(p) /\ SubSeq(s, 1, Len(p)) = p

RECURSIVE lstrip(_)
lstrip(s) == IF s # <<>> /\ Head(s) \in Space THEN lstrip(Tail(s)) ELSE s

RECURSIVE rstrip(_)
rstrip(s) == IF s # <<>> /\ s[Len(s)] \in Space
             THEN rstrip(SubSeq(s, 1, Len(s) - 1)) ELSE s

\* s.strip()
strip(s) == rstrip(lstrip(s))

RECURSIVE FirstWord(_)
\* leading run of non-blank characters
FirstWord(s) == IF s = <<>> \/ Head(s) \in Space THEN <<>>
                ELSE <<Head(s)>> \o FirstWord(Tail(s))

\* s.split()[0]: IndexError when s is blank
Split0(s) == IF lstrip(s) = <<>> THEN Raised ELSE JStr(FirstWord(lstrip(s)))

s_None      == <<"N", "o", "n", "e">>
s_True      == <<"T", "r", "u", "e">>
s_False     == <<"F", "a", "l", "s", "e">>
s_cliente   == <<"c", "l", "i", "e", "n", "t", "e">>
s_abandoned == <<"a", "b", "a", "n", "d", "o", "n", "e", "d">>
s_checkout_abandoned ==
    <<"c", "h", "e", "c", "k", "o", "u", "t", ".">> \o s_abandoned
s_order_updated ==
    <<"o", "r", "d", "e", "r", ".", "u", "p", "d", "a", "t", "e", "d">>
s_Seu_produto ==
    <<"S", "e", "u", " ", "p", "r", "o", "d", "u", "t", "o">>
s_R0 == <<"R", "$", " ", "0", ",", "0", "0">>
s_Paginatto == <<"P", "a", "g", "i", "n", "a", "t", "t", "o">>

\* repr of a float held in hundredths: 97.0, 97.5, 97.25
FloatRepr(c) ==
    LET a == IF c < 0 THEN -c ELSE c
        f == a % 100
        frac == IF f % 10 = 0 THEN <<DigitChar[(f \div 10) + 1]>>
                ELSE <<DigitChar[(f \div 10) + 1], DigitChar[(f % 10) + 1]>>
    IN (IF c < 0 THEN <<"-">> ELSE <<>>) \o Digits(a \div 100) \o <<".">> \o frac

\* str(x) for the scalar values
PyStr(x) ==
    CASE x.t = "str"   -> x.v
      [] x.t = "null"  -> s_None
      [] x.t = "int"   -> (IF x.v < 0 THEN <<"-">> \o Digits(-x.v) ELSE Digits(x.v))
      [] x.t = "float" -> FloatRepr(x.v)
      [] x.t = "bool"  -> (IF x.v THEN s_True ELSE s_False)

-----------------------------------------------------------------------------
(* Helpers *)

normalize_phone_min9(raw) ==
    IF ~Truthy(raw) THEN Null
    ELSE LET digits == SelectSeq(PyStr(raw), isdigit) IN
         IF digits = <<>> THEN Null
         ELSE IF startswith(digits, <<"5", "5">>) THEN JStr(digits)
         ELSE IF Len(digits) >= 9 THEN JStr(<<"5", "5">> \o digits)
         ELSE Null

normalize_phone(raw) ==
    IF ~Truthy(raw) THEN Null
    ELSE LET digits == SelectSeq(PyStr(raw), isdigit) IN
         IF digits = <<>> THEN Null
         ELSE IF startswith(digits, <<"5", "5">>) THEN JStr(digits)
         ELSE IF Len(digits) >= 10 THEN JStr(<<"5", "5">> \o digits)
         ELSE Null

\* A template is a sequence of parts: literal text, or a replacement field
\* {name}.
Lit(s)      == [k |-> "lit", s |-> s]
Field(name) == [k |-> "field", s |-> <<name>>]

SafeDict_missing_KeyError(key) == Raised

\* _SafeDict.__missing__
SafeDict_missing(key) == JStr(<<>>)

\* _SafeDict(data)[key]
SafeDict_getitem(data, key) ==
    IF key \in DOMAIN data THEN data[key] ELSE SafeDict_missing(key)

RECURSIVE format_map(_, _)
\* template.format_map(mapping) over the parts of the template
format_map(parts, data) ==
    IF parts = <<>> THEN JStr(<<>>)
    ELSE LET p    == Head(parts)
             here == IF p.k = "lit" THEN JStr(p.s)
                     ELSE LET x == SafeDict_getitem(data, p.s[1]) IN
                          IF IsRaised(x) THEN Raised ELSE JStr(PyStr(x))
             rest == format_map(Tail(parts), data)
         IN IF IsRaised(here) \/ IsRaised(rest) THEN Raised
            ELSE JStr(here.v \o rest.v)

safe_format(template, data) ==
    format_map(IF template = Null THEN <<>> ELSE template.v, data)

RECURSIVE DigitsValue(_)
DigitsValue(s) == IF s = <<>> THEN 0
                  ELSE 10 * DigitsValue(SubSeq(s, 1, Len(s) - 1)) + DigitVal(s[Len(s)])

AllDigits(s) == \A k \in 1..Len(s) : isdigit(s[k])

\* float(text) in hundredths for plain decimals with at most two places;
\* every other text of the payloads below is one float() rejects
ParseFloat(text) ==
    LET s   == strip(text)
        dot == IF \E k \in 1..Len(s) : s[k] = "."
               THEN CHOOSE k \in 1..Len(s) : s[k] = "." /\ \A j \in 1..(k - 1) : s[j] # "."
               ELSE Len(s) + 1
        ip  == SubSeq(s, 1, dot - 1)
        fp  == SubSeq(s, dot + 1, Len(s))
    IN IF (ip # <<>> \/ fp # <<>>) /\ AllDigits(ip) /\ AllDigits(fp) /\ Len(fp) <= 2
       THEN [ok |-> TRUE,
             c  |-> 100 * DigitsValue(ip)
                    + (IF Len(fp) = 1 THEN 10 * DigitsValue(fp) ELSE DigitsValue(fp))]
       ELSE [ok |-> FALSE, c |-> 0]

\* float(value)
ToFloat(value) ==
    CASE value.t = "int"   -> [ok |-> TRUE, c |-> 100 * value.v]
      [] value.t = "float" -> [ok |-> TRUE, c |-> value.v]
      [] value.t = "bool"  -> [ok |-> TRUE, c |-> IF value.v THEN 100 ELSE 0]
      [] value.t = "str"   -> ParseFloat(value.v)
      [] OTHER             -> [ok |-> FALSE, c |-> 0]

Pad3(n) == <<DigitChar[(n \div 100) + 1], DigitChar[((n \div 10) % 10) + 1],
             DigitChar[(n % 10) + 1]>>

RECURSIVE Grouped(_)
\* the integer part with "." between groups of three digits
Grouped(n) == IF n < 1000 THEN Digits(n)
              ELSE Grouped(n \div 1000) \o <<".">> \o Pad3(n % 1000)

\* f"R$ {v:,.2f}" with ",", "." and "X" swapped, for v = f.c hundredths; the
\* fallback "R$ 0,00" when float() failed
format_brl(f) ==
    IF ~f.ok THEN JStr(s_R0)
    ELSE LET a == IF f.c < 0 THEN -f.c ELSE f.c IN
         JStr(<<"R", "$", " ">> \o (IF f.c < 0 THEN <<"-">> ELSE <<>>)
              \o Grouped(a \div 100)
              \o <<",", DigitChar[((a % 100) \div 10) + 1],
                   DigitChar[(a % 10) + 1]>>)

currency_brl(value) ==
    IF IsRaised(value) THEN Raised ELSE format_brl(ToFloat(value))

\* v in (None, "", [], {})
IsEmptyValue(v) ==
    \/ v.t = "null"
    \/ v.t = "str" /\ v.v = <<>>
    \/ v.t = "arr" /\ v.v = <<>>
    \/ v.t = "obj" /\ DOMAIN v.v = {}

AnyRaised(values) == \E k \in 1..Len(values) : IsRaised(values[k])

coalesce(values) ==
    IF AnyRaised(values) THEN Raised
    ELSE IF \E k \in 1..Len(values) : ~IsEmptyValue(values[k])
    THEN values[CHOOSE k \in 1..Len(values) :
                    /\ ~IsEmptyValue(values[k])
                    /\ \A j \in 1..(k - 1) : IsEmptyValue(values[j])]
    ELSE Null

checkout_keys == <<"checkout_link", "checkout_url", "cart_url", "recovery_url",
                   "recover_url", "abandoned_checkout_url">>

RECURSIVE FirstHit(_, _)
\* for k in keys: if d.get(k): return d[k]   (Null when no key hits)
FirstHit(d, keys) ==
    IF keys = <<>> THEN Null
    ELSE LET x == Get(d, Head(keys)) IN
         IF IsRaised(x) THEN Raised
         ELSE IF Truthy(x) THEN x ELSE FirstHit(d, Tail(keys))

resolve_checkout_url(p, scoped) ==
    LET s  == Or2(scoped, EmptyObj)
        h1 == FirstHit(s, checkout_keys)
        h2 == FirstHit(p, checkout_keys)
        d  == Get(p, "data")
        h3 == IF Truthy(d) THEN FirstHit(d, checkout_keys) ELSE Null
    IN IF IsRaised(s) \/ IsRaised(h1) THEN Raised
       ELSE IF h1.t # "null" THEN h1
       ELSE IF h2.t # "null" THEN h2
       ELSE IF h3.t # "null" THEN h3
       ELSE JStr(<<>>)

RECURSIVE JoinStr(_)
JoinStr(ts) == IF ts = <<>> THEN <<>>
               ELSE IF Len(ts) = 1 THEN ts[1].v
               ELSE ts[1].v \o <<" ">> \o JoinStr(Tail(ts))

\* " ".join(t for t in ts if t): TypeError unless every kept t is a str
Join(ts) ==
    IF AnyRaised(ts) THEN Raised
    ELSE LET kept == SelectSeq(ts, Truthy) IN
         IF \E k \in 1..Len(kept) : kept[k].t # "str" THEN Raised
         ELSE JStr(JoinStr(kept))

product_from_item_no_variant(item) ==
    LET prod_obj == Or2(Get(item, "product"), EmptyObj)
        title    == coalesce(<<Get(item, "name"),
                               Get(item, "title"),
                               Get(prod_obj, "title"),
                               Join(<<Get(item, "title"),
                                      Get(item, "variant_title")>>)>>)
    IN Or2(title, JStr(s_Seu_produto))

product_from_item(item) ==
    LET variant  == Or2(Get(item, "variant"), EmptyObj)
        prod_obj == Or3(Get(item, "product"), Get(variant, "product"), EmptyObj)
        title    == coalesce(<<Get(item, "name"),
                               Get(item, "title"),
                               Get(prod_obj, "title"),
                               Join(<<Get(item, "title"),
                                      Or2(Get(item, "variant_title"),
                                          Get(variant, "title"))>>)>>)
    IN Or2(title, JStr(s_Seu_produto))

\* raw in (None, "", 0)
IsNoneEmptyOrZero(raw) ==
    \/ raw.t = "null"
    \/ raw.t = "str" /\ raw.v = <<>>
    \/ raw.t \in {"int", "float"} /\ raw.v = 0
    \/ raw.t = "bool" /\ ~raw.v

item_price_keys == <<"price", "unit_price", "line_price", "subtotal", "total">>

\* the value _price_from_item_or_totals hands to currency_brl
price_raw(item, totals) ==
    LET raw == coalesce([k \in 1..Len(item_price_keys) |->
                            Get(item, item_price_keys[k])])
    IN IF IsRaised(raw) \/ AnyRaised(totals) THEN Raised
       ELSE IF IsNoneEmptyOrZero(raw) THEN coalesce(totals) ELSE raw

price_from_item_or_totals(item, totals) == currency_brl(price_raw(item, totals))

-----------------------------------------------------------------------------
(* Parsers *)

\* f"{d.get(a, '')} {d.get(b, '')}".strip()
FullName(d, a, b) ==
    LET x == GetD(d, a, JStr(<<>>))
        y == GetD(d, b, JStr(<<>>))
    IN IF IsRaised(x) \/ IsRaised(y) THEN Raised
       ELSE JStr(strip(PyStr(x) \o <<" ">> \o PyStr(y)))

\* name.split()[0] if name else "cliente"
FirstToken(name) ==
    IF IsRaised(name) THEN Raised
    ELSE IF ~Truthy(name) THEN JStr(s_cliente)
    ELSE IF name.t # "str" THEN Raised
    ELSE Split0(name.v)

\* the dict a parser returns; an exception in any of its parts propagates
Canonical(r) ==
    IF \E f \in DOMAIN r : IsRaised(r[f]) THEN Raised ELSE r

parse_abandoned_payload(p) ==
    LET data  == Or2(GetD(p, "data", EmptyObj), EmptyObj)
        cust  == Or3(Get(data, "customer"), Get(data, "customer_info"), EmptyObj)
        items == Or2(Or3(Get(data, "cart_line_items"), Get(data, "line_items"),
                         Get(data, "items")), EmptyArr)
        name  == Or3(Get(cust, "full_name"),
                     FullName(cust, "first_name", "last_name"),
                     JStr(s_cliente))
        first_name == Or2(Get(cust, "first_name"), FirstToken(name))
        first == IF IsRaised(items) THEN Raised
                 ELSE IF Truthy(items) THEN Or2(Index0(items), EmptyObj)
                 ELSE EmptyObj
        checkout_url == resolve_checkout_url(p, data)
    IN Canonical(
        [order_id     |-> Get(data, "id"),
         event        |-> Or2(Get(p, "event"), JStr(s_checkout_abandoned)),
         name         |-> name,
         first_name   |-> first_name,
         phone        |-> Get(cust, "phone"),
         product      |-> product_from_item(first),
         price        |-> price_from_item_or_totals(first,
                              <<Get(data, "total_line_items_price"),
                                Get(data, "subtotal_price"),
                                Get(data, "total_price")>>),
         checkout_url |-> checkout_url,
         cart_url     |-> checkout_url])

parse_order_payload(p) ==
    LET order    == Or2(GetD(p, "order", EmptyObj), EmptyObj)
        customer == Or2(GetD(order, "customer", EmptyObj), EmptyObj)
        items    == Or3(Get(order, "line_items"), Get(order, "items"),
                        JArr(<<EmptyObj>>))
        name     == Or2(Or3(Get(customer, "name"), Get(customer, "full_name"),
                            FullName(customer, "first_name", "last_name")),
                        JStr(s_cliente))
        first_name == Or2(Get(customer, "first_name"), FirstToken(name))
        first == IF IsRaised(items) THEN Raised
                 ELSE Or2(Index0(items), EmptyObj)
        checkout_url == resolve_checkout_url(p, order)
    IN Canonical(
        [order_id     |-> Get(order, "id"),
         event        |-> Or3(Get(p, "event"), Get(order, "status"),
                              JStr(s_order_updated)),
         name         |-> name,
         first_name   |-> first_name,
         phone        |-> Get(customer, "phone"),
         product      |-> product_from_item(first),
         price        |-> price_from_item_or_totals(first,
                              <<Get(order, "total_line_items_price"),
                                Get(order, "subtotal_price"),
                                Get(order, "total_price"),
                                Get(order, "unformatted_total_price")>>),
         checkout_url |-> checkout_url,
         cart_url     |-> checkout_url])

\* (x or "").lower(): AttributeError unless the value is a str
LowerOrEmpty(x) ==
    LET y == Or2(x, JStr(<<>>)) IN
    IF IsRaised(y) \/ y.t # "str" THEN Raised ELSE JStr(lower(y.v))

parse_cartpanda_payload(p) ==
    LET event == LowerOrEmpty(Get(p, "event")) IN
    IF IsRaised(event) THEN Raised
    ELSE IF Contains(s_abandoned, event.v)
            \/ ("data" \in DOMAIN p.v /\ Truthy(p.v["data"]))
    THEN parse_abandoned_payload(p)
    ELSE parse_order_payload(p)

-----------------------------------------------------------------------------
(* UAZAPI sender *)

UAZAPI_BASE_URL == "https://free.uazapi.com"

paths == <<"/message/sendText", "/message/send", "/sendText", "/send/text",
           "/api/message/sendText", "/api/message/send">>

\* each header set as its (name, value) pairs in insertion order
auth_headers(token) ==
    << <<(<<"Authorization", "Bearer " \o token>>), (<<"Content-Type", "application/json">>)>>,
       <<(<<"Authorization", token>>), (<<"Content-Type", "application/json">>)>>,
       <<(<<"token", token>>), (<<"Content-Type", "application/json">>)>>,
       <<(<<"Token", token>>), (<<"Content-Type", "application/json">>)>> >>

payloads(phone, msg) ==
    << [number |-> phone, text |-> msg],
       [phone |-> phone, message |-> msg],
       [to |-> phone, text |-> msg],
       [to |-> phone, message |-> msg] >>

\* for h in hs: for b in bs: append (p, h, b)
ForHeaders(p, hs, bs) ==
    [k \in 1..(Len(hs) * Len(bs)) |->
        [path    |-> p,
         headers |-> hs[((k - 1) \div Len(bs)) + 1],
         body    |-> bs[((k - 1) % Len(bs)) + 1]]]

RECURSIVE ForPaths(_, _, _)
\* for p in ps: for h in hs: for b in bs: append (p, h, b)
ForPaths(ps, hs, bs) ==
    IF ps = <<>> THEN <<>>
    ELSE ForHeaders(Head(ps), hs, bs) \o ForPaths(Tail(ps), hs, bs)

candidate_requests_header_major(token, phone, msg) ==
    LET hs == auth_headers(token)
        bs == payloads(phone, msg)
    IN [k \in 1..(Len(hs) * Len(paths) * Len(bs)) |->
        [path    |-> paths[(((k - 1) \div Len(bs)) % Len(paths)) + 1],
         headers |-> hs[((k - 1) \div (Len(bs) * Len(paths))) + 1],
         body    |-> bs[((k - 1) % Len(bs)) + 1]]]

candidate_requests(token, phone, msg) ==
    ForPaths(paths, auth_headers(token), payloads(phone, msg))

Inconclusive404Only == {404}

\* r.status_code in (404, 405)
Inconclusive == {404, 405}

\* the statuses the gateway answers with, and the exceptions a POST raises
Statuses   == {200, 401, 404, 405}
Exceptions == {"ReadTimeout"}

url_of(req) == UAZAPI_BASE_URL \o req.path

headers_used(req) == [k \in 1..Len(req.headers) |-> req.headers[k][1]]

\* {"status": r.status_code, "body": text, "url": url}
InconclusiveResult(st, text, req) ==
    [status |-> JInt(st), body |-> text, url |-> url_of(req)]

\* {"status": ..., "body": ..., "url": ..., "payload": ..., "headers_used": ...}
ConclusiveResult(st, text, req) ==
    [status |-> JInt(st), body |-> text, url |-> url_of(req),
     payload |-> req.body, headers_used |-> headers_used(req)]

\* {"status": "error", "body": str(e), "url": url}
ExceptionResult(e, req) ==
    [status |-> JStr("error"), body |-> e, url |-> url_of(req)]

MissingToken == [status |-> JStr("error"), body |-> "missing_env:UAZAPI_TOKEN"]
NoAttempts   == [status |-> JStr("error"), body |-> "no_attempts"]
NoResult     == [status |-> Null]

after_loop_no_attempts(l) == NoAttempts

\* return last or {"status": "error", "body": "no_attempts"}
after_loop(l) == IF l # NoResult THEN l ELSE NoAttempts

-----------------------------------------------------------------------------
(* Webhook *)

SENDER_NAME == JStr(s_Paginatto)

\* the default of MSG_TEMPLATE, its accented letters and dash in ASCII
MSG_TEMPLATE ==
    JStr(<<Lit(<<"T", "e", " ", "a", "c", "h", "e", "i", " ">>),
           Field("first_name"),
           Lit(<<"!", " ", "V", "o", "c", "e", " ", "d", "e", "i", "x", "o", "u", " ">>),
           Field("product"),
           Lit(<<" ", "n", "o", " ", "c", "a", "r", "r", "i", "n", "h", "o", " ", "p", "o", "r", " ">>),
           Field("price"),
           Lit(<<".", "\n", "F", "i", "n", "a", "l", "i", "z", "e", " ", "a", "q", "u", "i", ":", " ">>),
           Field("checkout_url"),
           Lit(<<"\n", "-", "-", " ">>),
           Field("brand")>>)

\* what the HTTP layer answers when the handler raises
Fault == [status |-> 500, body |-> [detail |-> "Internal Server Error"]]

IgnoredResponse(event, i) ==
    [status |-> 200,
     body   |-> [ok |-> TRUE, action |-> "ignored", event |-> event,
                 order_id |-> i.order_id]]

InvalidPhoneResponse(i) ==
    [status |-> 200,
     body   |-> [ok |-> FALSE, error |-> "telefone invalido",
                 order_id |-> i.order_id]]

AttemptedResponse(i, result) ==
    [status |-> 200,
     body   |-> [ok |-> TRUE, action |-> "whatsapp_attempted",
                 order_id |-> i.order_id, provider |-> "uazapi",
                 result |-> result]]

IsFault(i) == "t" \in DOMAIN i

\* data = {...} handed to safe_format
TemplateData(i) ==
    [name         |-> i.name,
     first_name   |-> i.first_name,
     product      |-> i.product,
     price        |-> i.price,
     checkout_url |-> i.checkout_url,
     cart_url     |-> i.cart_url,
     brand        |-> SENDER_NAME]

\* "abandoned" not in event and "checkout.abandoned" not in event
NotAbandoned(event) ==
    ~Contains(s_abandoned, event) /\ ~Contains(s_checkout_abandoned, event)

Idle ==
    /\ pc = "idle"
    /\ payload = Null
    /\ info = Null
    /\ phone_norm = Null
    /\ message = Null
    /\ calls = {}
    /\ attempts = <<>>
    /\ issued = <<>>
    /\ reply = Null
    /\ seen = {}
    /\ last = NoResult
    /\ response = Null

\* The handler after info = parse_cartpanda_payload(payload), with i the
\* value of info, up to its first await on the gateway or, when it gets there
\* sooner, to its response.
after_parse(p, i, token) ==
    LET event == IF IsFault(i) THEN Raised
                 ELSE LowerOrEmpty(Or2(Get(p, "event"), i.event))
        norm  == normalize_phone(i.phone)
        msg   == safe_format(MSG_TEMPLATE, TemplateData(i))
    IN
    IF IsFault(i) \/ IsRaised(event)
    THEN [info |-> i, phone_norm |-> Null, message |-> Null, calls |-> {},
          response |-> Fault]
    ELSE IF NotAbandoned(event.v)
    THEN [info |-> i, phone_norm |-> Null, message |-> Null, calls |-> {},
          response |-> IgnoredResponse(event, i)]
    ELSE IF ~Truthy(norm)
    THEN [info |-> i, phone_norm |-> norm, message |-> Null,
          calls |-> {"normalize_phone"},
          response |-> InvalidPhoneResponse(i)]
    ELSE IF IsRaised(msg)
    THEN [info |-> i, phone_norm |-> norm, message |-> Null,
          calls |-> {"normalize_phone", "safe_format"},
          response |-> Fault]
    ELSE [info |-> i, phone_norm |-> norm, message |-> msg,
          calls |-> {"normalize_phone", "safe_format", "uazapi_send_text"},
          response |-> IF token = "" THEN AttemptedResponse(i, MissingToken)
                       ELSE Null]

\* The handler from its entry to its first await on the gateway or, when
\* it gets there sooner, to its response: the values of its locals, the
\* components it called, and the response (Null while the send is pending).
handler(p, token) == after_parse(p, parse_cartpanda_payload(p), token)

\* POST /webhook/cartpanda with body p
cartpanda_webhook(p) ==
    /\ pc = "idle"
    /\ \E h \in {handler(p, UAZAPI_TOKEN)} :
          /\ payload' = p
          /\ info' = h.info
          /\ phone_norm' = h.phone_norm
          /\ message' = h.message
          /\ calls' = h.calls
          /\ response' = h.response
          /\ pc' = IF h.response = Null THEN "sending" ELSE "done"
          /\ attempts' = IF h.response = Null
                         THEN candidate_requests(UAZAPI_TOKEN, h.phone_norm, h.message)
                         ELSE <<>>
    /\ issued' = <<>>
    /\ reply' = Null
    /\ seen' = {}
    /\ last' = NoResult
    /\ UNCHANGED <<UAZAPI_TOKEN, unit>>

\* one turn of the loop of uazapi_send_text whose POST is answered with
\* status st; the return and the handler's response follow a conclusive
\* answer or the end of the list
PostAnswered(st) ==
    LET k   == Len(issued) + 1
        req == attempts[k]
        txt == "body"
    IN
    /\ pc = "sending"
    /\ k <= Len(attempts)
    /\ issued' = Append(issued, k)
    /\ reply' = [kind |-> "response", status |-> st]
    /\ seen' = seen \cup {IF st \in Inconclusive THEN "inconclusive" ELSE "conclusive"}
    /\ UNCHANGED <<UAZAPI_TOKEN, payload, info, phone_norm, message, calls,
                   attempts, unit>>
    /\ IF st \in Inconclusive
       THEN /\ last' = InconclusiveResult(st, txt, req)
            /\ IF k < Len(attempts)
               THEN pc' = "sending" /\ response' = Null
               ELSE /\ pc' = "done"
                    /\ response' = AttemptedResponse(info, after_loop(last'))
       ELSE /\ last' = last
            /\ pc' = "done"
            /\ response' = AttemptedResponse(info, ConclusiveResult(st, txt, req))

\* one turn of the loop whose POST raises e
PostRaises(e) ==
    LET k   == Len(issued) + 1
        req == attempts[k]
    IN
    /\ pc = "sending"
    /\ k <= Len(attempts)
    /\ issued' = Append(issued, k)
    /\ reply' = [kind |-> "exception", status |-> 0]
    /\ seen' = seen \cup {"exception"}
    /\ last' = ExceptionResult(e, req)
    /\ UNCHANGED <<UAZAPI_TOKEN, payload, info, phone_norm, message, calls,
                   attempts, unit>>
    /\ IF k < Len(attempts)
       THEN pc' = "sending" /\ response' = Null
       ELSE /\ pc' = "done"
            /\ response' = AttemptedResponse(info, after_loop(last'))

\* the response is sent; the process waits for the next request
Respond ==
    /\ pc = "done"
    /\ pc' = "idle"
    /\ payload' = Null
    /\ info' = Null
    /\ phone_norm' = Null
    /\ message' = Null
    /\ calls' = {}
    /\ attempts' = <<>>
    /\ issued' = <<>>
    /\ reply' = Null
    /\ seen' = {}
    /\ last' = NoResult
    /\ response' = Null
    /\ UNCHANGED <<UAZAPI_TOKEN, unit>>

-----------------------------------------------------------------------------
(* Requests *)

MaxPhoneDigits == 11

s_A1 == <<"A", "1">>
s_B2 == <<"B", "2">>
s_x == <<"x">>
s_Maria_Silva == <<"M", "a", "r", "i", "a", " ", "S", "i", "l", "v", "a">>
s_Ana == <<"A", "n", "a">>
s_Lima == <<"L", "i", "m", "a">>
s_Curso_X == <<"C", "u", "r", "s", "o", " ", "X">>
s_Livro == <<"L", "i", "v", "r", "o">>
s_phone1 == <<"1", "1", " ", "9", "8", "8", "8", "8", "-", "7", "7", "7", "7">>
s_url == <<"h", "t", "t", "p", "s", ":", "/", "/", "x", ".", "c", "o", "/", "c", "1">>
s_order_paid == <<"o", "r", "d", "e", "r", ".", "p", "a", "i", "d">>
s_CART_ABANDONED == <<"C", "A", "R", "T", ".", "A", "B", "A", "N", "D", "O", "N", "E", "D">>

Rep(n, d) == [k \in 1..n |-> d]
Dashed(s) == [k \in 1..(2 * Len(s)) |-> IF k % 2 = 1 THEN s[(k + 1) \div 2] ELSE "-"]

\* free-form phone texts with 0..MaxPhoneDigits subscriber digits: bare,
\* dash-separated, and with the country code already in front
PhoneTexts ==
    {Rep(n, "1") : n \in 0..MaxPhoneDigits}
    \cup {Dashed(Rep(n, "1")) : n \in 1..MaxPhoneDigits}
    \cup {<<"5", "5">> \o Rep(n, "1") : n \in 0..MaxPhoneDigits}
    \cup {<<"+", "5", "5", " ">> \o Rep(n, "1") : n \in {0, MaxPhoneDigits}}

Phones ==
    {JStr(s) : s \in PhoneTexts}
    \cup {Null, JStr(s_phone1), JInt(0), JInt(123), JInt(5512), JBool(TRUE)}

ScenarioItems ==
    JArr(<<JObj([variant |-> JObj([title |-> JStr(s_Curso_X), price |-> JFloat(9700)])])>>)

ScenarioCustomer(phone) == JObj([full_name |-> JStr(s_Maria_Silva), phone |-> phone])

ScenarioData(cust, items) ==
    JObj([id |-> JStr(s_A1), customer |-> cust, cart_line_items |-> items,
          cart_url |-> JStr(s_url)])

Abandoned(data) == JObj([event |-> JStr(s_checkout_abandoned), data |-> data])

\* end-to-end scenario 1
Scenario1 == Abandoned(ScenarioData(ScenarioCustomer(JStr(s_phone1)), ScenarioItems))

Events == {JStr(s_checkout_abandoned), JStr(s_CART_ABANDONED), JStr(s_order_paid),
           JStr(<<>>), Null, JInt(5), JArr(<<JStr(s_abandoned)>>)}

EventPayloads ==
    {JObj(("event" :> ev) @@ Scenario1.v) : ev \in Events}
    \cup {JObj([data |-> Scenario1.v["data"]]),
          JObj([event |-> JStr(s_checkout_abandoned)]),
          JObj([event |-> JStr(s_order_paid)]),
          JObj(<<>>)}

PhonePayloads ==
    {Abandoned(ScenarioData(ScenarioCustomer(ph), ScenarioItems)) : ph \in Phones}

Customers ==
    {Null, JStr(s_x), JInt(7), EmptyObj,
     JObj([phone |-> JStr(s_phone1)]),
     JObj([first_name |-> JStr(s_Ana), last_name |-> JStr(s_Lima), phone |-> JStr(s_phone1)]),
     JObj([first_name |-> Null, phone |-> JStr(s_phone1)]),
     JObj([full_name |-> JStr(<<" ", " ">>), phone |-> JStr(s_phone1)]),
     JObj([full_name |-> JInt(5), phone |-> JStr(s_phone1)]),
     JObj([full_name |-> JInt(5), first_name |-> JStr(s_Ana), phone |-> JStr(s_phone1)])}

CustomerPayloads ==
    {Abandoned(ScenarioData(c, ScenarioItems)) : c \in Customers}
    \cup {Abandoned(JObj([id |-> JStr(s_A1),
                          customer_info |-> ScenarioCustomer(JStr(s_phone1))]))}

ItemLists ==
    {Null, EmptyArr, JStr(s_x), JInt(3),
     JObj([name |-> JStr(s_Livro)]),
     JArr(<<Null>>), JArr(<<JStr(s_x)>>), JArr(<<JInt(1)>>),
     JArr(<<JObj([name |-> JStr(s_Livro), price |-> JInt(50)]),
            JObj([name |-> JStr(s_Curso_X), price |-> JInt(97)])>>),
     JArr(<<JObj([title |-> JInt(5)])>>),
     JArr(<<JObj([name |-> JStr(s_Livro), title |-> JInt(5)])>>),
     JArr(<<JObj([variant |-> JStr(s_x)])>>),
     JArr(<<JObj([product |-> JObj([title |-> JStr(s_Livro)]),
                  price |-> JStr(<<"1", "2", "3", "4", ".", "5">>)])>>),
     JArr(<<JObj([title |-> JStr(s_Livro), variant_title |-> JStr(s_x),
                  price |-> JInt(0), unit_price |-> JInt(50)])>>)}

ItemPayloads ==
    {Abandoned(ScenarioData(ScenarioCustomer(JStr(s_phone1)), it)) : it \in ItemLists}
    \cup {Abandoned(JObj([customer |-> ScenarioCustomer(JStr(s_phone1)),
                          items |-> ScenarioItems,
                          total_price |-> JInt(120),
                          checkout_url |-> JStr(s_url)]))}

DataPayloads ==
    {Abandoned(d) : d \in {Null, JStr(s_x), JInt(1), JArr(<<JInt(1)>>), EmptyObj}}

Orders ==
    {Null, JStr(s_x), EmptyObj,
     JObj([id |-> JStr(s_B2)]),
     JObj([id |-> JStr(s_B2), status |-> JInt(1)]),
     JObj([id |-> JStr(s_B2), status |-> JStr(s_abandoned),
           customer |-> JObj([name |-> JStr(s_Ana), phone |-> JStr(s_phone1)]),
           line_items |-> JArr(<<JObj([name |-> JStr(s_Livro), price |-> JInt(50)])>>)]),
     JObj([id |-> JStr(s_B2), status |-> JStr(s_abandoned),
           customer |-> JObj([phone |-> JStr(<<"1", "2", "3">>)])]),
     JObj([id |-> JStr(s_B2), status |-> JStr(s_abandoned), customer |-> JStr(s_x)]),
     JObj([id |-> JStr(s_B2), status |-> JStr(s_abandoned), line_items |-> JInt(2)])}

OrderPayloads ==
    {JObj([order |-> o]) : o \in Orders}
    \cup {JObj([event |-> JStr(s_order_paid), order |-> o]) : o \in Orders}
    \cup {JObj([event |-> JStr(s_checkout_abandoned), order |-> JObj([id |-> JStr(s_B2)])])}

\* the bodies POST /webhook/cartpanda is called with
Payloads ==
    EventPayloads \cup PhonePayloads \cup CustomerPayloads \cup ItemPayloads
    \cup DataPayloads \cup OrderPayloads

NoUnit == [fn |-> "none"]

Init ==
    /\ UAZAPI_TOKEN \in {"", "tok"}
    /\ Idle
    /\ unit = NoUnit

Next ==
    \/ \E p \in Payloads : cartpanda_webhook(p)
    \/ \E st \in Statuses : PostAnswered(st)
    \/ \E e \in Exceptions : PostRaises(e)
    \/ Respond

Spec == Init /\ [][Next]_vars

-----------------------------------------------------------------------------
(* Single calls of the helpers *)

MaxParts == 3

\* what an item field or a total may hold; `n` tells the fields apart
PriceValues(n) == {Null, JStr(<<>>), JInt(0), JInt(n)}

PriceItems ==
    {JObj([price |-> a, unit_price |-> b, line_price |-> c, subtotal |-> d, total |-> e]) :
        a \in PriceValues(10), b \in PriceValues(20), c \in PriceValues(30),
        d \in PriceValues(40), e \in PriceValues(50)}

PriceTotals ==
    {<<a, b, c>> : a \in {Null, JInt(1100)}, b \in {Null, JInt(1200)},
                   c \in {Null, JInt(1300)}}

PriceInit ==
    /\ UAZAPI_TOKEN = ""
    /\ Idle
    /\ \E it \in PriceItems, ts \in PriceTotals :
          unit = [fn |-> "price", item |-> it, totals |-> ts, out |-> Null,
                  done |-> FALSE]

\* price = _price_from_item_or_totals(first, [...])
PriceCall ==
    /\ unit.fn = "price"
    /\ ~unit.done
    /\ unit' = [unit EXCEPT !.out = price_from_item_or_totals(unit.item, unit.totals),
                            !.done = TRUE]
    /\ UNCHANGED <<UAZAPI_TOKEN, pc, payload, info, phone_norm, message, calls, attempts,
                   issued, reply, seen, last, response>>

PriceNext == PriceCall

SpecPrice == PriceInit /\ [][PriceNext]_vars

TemplateParts ==
    {Lit(<<"O", "i", " ">>), Lit(<<"!">>), Field("first_name"), Field("price"),
     Field("nome"), Field("order_id")}

RECURSIVE PartsUpTo(_)
PartsUpTo(n) ==
    IF n = 0 THEN {<<>>}
    ELSE PartsUpTo(n - 1)
         \cup {Append(ps, x) : ps \in {q \in PartsUpTo(n - 1) : Len(q) = n - 1},
                               x \in TemplateParts}

\* MSG_TEMPLATE is Optional[str]
Templates == {Null} \cup {JStr(ps) : ps \in PartsUpTo(MaxParts)}

\* the mappings the handler builds from canonical records
CanonicalData ==
    {TemplateData(parse_cartpanda_payload(p)) :
        p \in {Scenario1,
               Abandoned(JObj([customer |-> JObj([full_name |-> JInt(5),
                                                  first_name |-> JStr(s_Ana)]),
                               total_price |-> JStr(<<"1", "2", "3", "4", ".", "5">>)]))}}

FormatInit ==
    /\ UAZAPI_TOKEN = ""
    /\ Idle
    /\ \E tp \in Templates, d \in CanonicalData :
          unit = [fn |-> "format", template |-> tp, data |-> d, out |-> Null,
                  done |-> FALSE]

\* message = safe_format(MSG_TEMPLATE, data)
FormatCall ==
    /\ unit.fn = "format"
    /\ ~unit.done
    /\ unit' = [unit EXCEPT !.out = safe_format(unit.template, unit.data),
                            !.done = TRUE]
    /\ UNCHANGED <<UAZAPI_TOKEN, pc, payload, info, phone_norm, message, calls, attempts,
                   issued, reply, seen, last, response>>

FormatNext == FormatCall

SpecFormat == FormatInit /\ [][FormatNext]_vars

-----------------------------------------------------------------------------
(* Properties *)

\* the terminal outcome a response stands for
Outcome ==
    IF response = Null THEN "pending"
    ELSE IF response.status # 200 THEN "fault"
    ELSE IF "error" \in DOMAIN response.body THEN "rejected_no_phone"
    ELSE IF response.body.action = "ignored" THEN "ignored"
    ELSE "dispatch_attempted"

Dispatched == "uazapi_send_text" \in calls

\* the lower-cased event the handler classifies by
EventOf == LowerOrEmpty(Or2(Get(payload, "event"), info.event))

\* the result field of a whatsapp_attempted response
Result == response.body.result

DigitsOf(raw) == SelectSeq(PyStr(raw), isdigit)

\* C1: every request ends in exactly one of ignored, rejected_no_phone and
\* dispatch_attempted, decided in that order: an event without "abandoned"
\* ends at ignored with neither the normaliser nor the sender called; else
\* a rejected phone ends at rejected_no_phone with the sender not called;
\* and the sender is called exactly when the request ends at
\* dispatch_attempted.
C1_ThreeOutcomes ==
    pc = "done" =>
        /\ Outcome \in {"ignored", "rejected_no_phone", "dispatch_attempted"}
        /\ (Outcome = "ignored") = ~Contains(s_abandoned, EventOf.v)
        /\ Outcome = "ignored" => calls = {}
        /\ (Outcome = "rejected_no_phone") =
              (Contains(s_abandoned, EventOf.v) /\ ~Truthy(phone_norm))
        /\ Outcome = "rejected_no_phone" => ~Dispatched
        /\ (Outcome = "dispatch_attempted") = Dispatched

\* The same order of decisions for the requests whose handling raises nothing.
C1_OrderWhenNoFault ==
    (pc # "idle" /\ ~IsFault(info) /\ ~IsRaised(EventOf)) =>
        /\ ~Contains(s_abandoned, EventOf.v) => (Outcome = "ignored" /\ calls = {})
        /\ (Contains(s_abandoned, EventOf.v) /\ ~Truthy(normalize_phone(info.phone)))
              => (Outcome = "rejected_no_phone" /\ ~Dispatched)
        /\ Dispatched = (Contains(s_abandoned, EventOf.v)
                         /\ Truthy(normalize_phone(info.phone)))
        /\ (pc = "done" /\ Dispatched) => Outcome = "dispatch_attempted"
        /\ issued # <<>> => Dispatched

InconclusiveReply == reply # Null /\ reply.kind = "response" /\ reply.status \in {404, 405}
ConclusiveReply   == reply # Null /\ reply.kind = "response" /\ reply.status \notin {404, 405}

\* what holds of the probe in every state
C2_State ==
    /\ \A k \in 1..Len(issued) : issued[k] = k
    /\ (InconclusiveReply /\ Len(issued) < Len(attempts)) => pc = "sending"
    /\ ConclusiveReply =>
          /\ pc = "done"
          /\ Result = ConclusiveResult(reply.status, "body", attempts[Len(issued)])
          /\ Result.status = JInt(reply.status)
    /\ "conclusive" \in seen => ConclusiveReply

\* what holds of every step: a POST is of the next candidate and follows no
\* conclusive answer, and a call that has returned posts nothing
C2_Step ==
    /\ (pc = "sending" /\ Len(issued') > Len(issued)) =>
          /\ issued' = Append(issued, Len(issued) + 1)
          /\ "conclusive" \notin seen
    /\ (pc = "done") => Len(issued') <= Len(issued)

\* C2: the candidates are posted one at a time in sequence; a 404 or 405
\* leaves the probe running towards the next candidate; the first answer
\* with any other status (401 included) ends the call at once with that
\* answer as the result, and no further request is posted for the message.
C2_ProbeStopsAtFirstConclusive == []C2_State /\ [][C2_Step]_vars

C2_Witness ==
    /\ pc = "done"
    /\ Len(issued) = 3
    /\ seen = {"inconclusive", "conclusive"}
    /\ reply.status = 401

\* C3: when every candidate posted was answered 404 or 405, the call returns
\* the result recorded for the last candidate of the enumeration, not an
\* earlier one and not the no_attempts marker.
C3_LastInconclusiveReturned ==
    (pc = "done" /\ Dispatched /\ seen = {"inconclusive"}) =>
        /\ Len(issued) = Len(attempts)
        /\ Result = InconclusiveResult(reply.status, "body", attempts[Len(attempts)])
        /\ Result.url = UAZAPI_BASE_URL \o "/api/message/send"
        /\ Result # NoAttempts

C3_Witness ==
    /\ pc = "done"
    /\ Dispatched
    /\ seen = {"inconclusive"}
    /\ reply.status = 405
    /\ Len(issued) = 96

\* C4: for every JSON-object body and every behaviour of the gateway the
\* handler finishes with HTTP 200 and a well-formed JSON body; nothing
\* raises through to the HTTP layer.
C4_Always200 ==
    pc = "done" => (response.status = 200 /\ "ok" \in DOMAIN response.body)

\* a call in which a POST raised ends with that error as its result
C5_State ==
    (pc = "done" /\ "exception" \in seen) =>
        /\ response.status = 200
        /\ Result.status = JStr("error")

\* once a POST has raised, no step posts another request for the call
C5_Step == ("exception" \in seen) => Len(issued') <= Len(issued)

\* C5: a POST that raises is captured in the result of the webhook
\* response, no further request is posted for that webhook call after it,
\* and the HTTP status stays 200.
C5_FailureEndsDelivery == []C5_State /\ [][C5_Step]_vars

s_5511988887777 == <<"5", "5", "1", "1", "9", "8", "8", "8", "8", "7", "7", "7", "7">>
s_R97 == <<"R", "$", " ", "9", "7", ",", "0", "0">>

ScenarioCommon ==
    /\ phone_norm = JStr(s_5511988887777)
    /\ info.product = JStr(s_Curso_X)
    /\ Dispatched
    /\ issued # <<>> =>
          attempts[issued[1]].body = [number |-> JStr(s_5511988887777), text |-> message]
    /\ Contains(s_Curso_X, message.v)
    /\ pc = "done" => (response.status = 200
                       /\ response.body.action = "whatsapp_attempted")

ItemFields(item) == [k \in 1..Len(item_price_keys) |-> Get(item, item_price_keys[k])]

\* C8: the price is the first non-empty value among price, unit_price,
\* line_price, subtotal and total, and the totals are used only when all of
\* these are empty or zero.  Whether or not a zero counts as empty, an item
\* with a field that is neither is priced from its own fields.
C8_ItemBeforeTotals ==
    (unit.fn = "price" /\ unit.done) =>
        LET fs       == ItemFields(unit.item)
            nonzero  == SelectSeq(fs, LAMBDA v : ~IsNoneEmptyOrZero(v))
            nonempty == SelectSeq(fs, LAMBDA v : ~IsEmptyValue(v))
        IN IF nonzero # <<>>
           THEN unit.out \in {currency_brl(Head(nonempty)), currency_brl(Head(nonzero))}
           ELSE unit.out = currency_brl(coalesce(unit.totals))

RECURSIVE Rendered(_, _)
\* the parts of a template with each field replaced by the text of its
\* value, or by nothing when the mapping has no such name
Rendered(parts, data) ==
    IF parts = <<>> THEN <<>>
    ELSE LET p == Head(parts) IN
         (IF p.k = "lit" THEN p.s
          ELSE IF p.s[1] \in DOMAIN data THEN PyStr(data[p.s[1]]) ELSE <<>>)
         \o Rendered(Tail(parts), data)

HasUnknownField(parts, data) ==
    \E k \in 1..Len(parts) : parts[k].k = "field" /\ parts[k].s[1] \notin DOMAIN data

C10_AtMost96InOrder ==
    /\ Len(issued) <= 96
    /\ issued = [k \in 1..Len(issued) |-> k]
    /\ issued # <<>> =>
          SubSeq(attempts, 1, Len(issued)) =
             [k \in 1..Len(issued) |->
                [path    |-> paths[((k - 1) \div 16) + 1],
                 headers |-> auth_headers(UAZAPI_TOKEN)[(((k - 1) \div 4) % 4) + 1],
                 body    |-> payloads(phone_norm, message)[((k - 1) % 4) + 1]]]
    /\ Len(issued) = 96 => pc = "done"
    /\ (Dispatched /\ UAZAPI_TOKEN = "") =>
          (issued = <<>> /\ pc = "done" /\ Result = MissingToken)

C10_Witness ==
    /\ Len(issued) = 96
    /\ pc = "done"
    /\ seen = {"inconclusive", "exception"}

====
